---- MODULE Spec2Model ----
(***************************************************************************)
(* Model of the sweep Input abstraction (package input: inputKit,          *)
(* BaseInput, HtlcSucceedInput and their CraftInputScript methods) and of  *)
(* netann.NodeAnnSetTimestamp.                                             *)
(*                                                                         *)
(* Memory is modelled explicitly.  A Go struct field that is embedded by   *)
(* value lives at the location of its owner; a pointer is a location.      *)
(* outpoints and descs map locations to the wire.OutPoint and the          *)
(* SignDescriptor stored there.  Locations are <<"caller", 0>> (the        *)
(* variable whose address the caller hands to a constructor),              *)
(* <<"input", i>> (the fields of Input i) and <<"local", t>> (the local    *)
(* variable desc of a CraftInputScript call running on goroutine t).       *)
(***************************************************************************)
EXTENDS Integers, Sequences, FiniteSets, TLC

\* ------------------------------------------------------------------ bounds
\* Craft calls started in one behaviour.
MaxCalls == 3
\* NodeAnnSetTimestamp calls in one behaviour.
MaxStamps == 3

\* ----------------------------------------------------------------- domains
Slots == {1, 2}
Threads == {1, 2}
TxIds == {1, 2}
TxinIdxs == {0, 1}
KeyIds == {1, 2}
Preimages == {1, 2}
OutPointVals == {1, 2}
HeightHints == {100}
Maturities == {0, 144}

CallerLoc == <<"caller", 0>>
InLoc(i) == <<"input", i>>
LocalLoc(t) == <<"local", t>>
Locs == {CallerLoc} \cup {InLoc(i) : i \in Slots} \cup {LocalLoc(t) : t \in Threads}

\* nil for a *txscript.TxSigHashes, a []byte preimage, an error.
NoCache == [cache |-> 0]
NoPreimage == [bytes |-> 0]
NilErr == "nil"

\* The sighash cache of a transaction (txscript.NewTxSigHashes(txn)): the
\* caller contract is that hashCache is the cache of txn.
SigHashesOf(txn) == [cache |-> txn]

\* --------------------------------------------------------- witness types
\* The closed WitnessType set (the part of it the model uses) and which of
\* its members are CSV/CLTV gated.
CommitmentTimeLock == "CommitmentTimeLock"
CommitmentNoDelay == "CommitmentNoDelay"
HtlcAcceptedRemoteSuccess == "HtlcAcceptedRemoteSuccess"
WitnessTypes == {CommitmentTimeLock, CommitmentNoDelay, HtlcAcceptedRemoteSuccess}
IsTimeLocked(wt) == wt = CommitmentTimeLock

\* ------------------------------------------------------------ descriptors
\* The payment hash an HTLC script commits to; not the identity.
Hash(p) == (p * p + 1) % 7

\* A SignDescriptor: key reference, script (its committed payment hash) and
\* the two late-bound fields.
CallerDesc(k) ==
  [KeyDesc |-> k, WitnessScript |-> Hash(k), SigHashes |-> NoCache, InputIndex |-> 0]
ZeroDesc == [KeyDesc |-> 0, WitnessScript |-> 0, SigHashes |-> NoCache, InputIndex |-> 0]

\* ----------------------------------------------------------------- signer
\* The signer holds these keys; signing with another key fails.
SignerKeys == {1}
ErrKeyUnavailable == "ErrKeyUnavailable"

\* Signer.SignOutputRaw(tx, signDesc): deterministic; the signature commits
\* to the key, the transaction, the sighash cache and the input index.
SignOutputRaw(tx, signDesc) ==
  IF signDesc.KeyDesc \in SignerKeys
  THEN [sig |-> <<signDesc.KeyDesc, tx.msg, signDesc.SigHashes.cache, signDesc.InputIndex>>,
        err |-> NilErr]
  ELSE [sig |-> <<>>, err |-> ErrKeyUnavailable]

\* ------------------------------------------------------------------ state
VARIABLES
  inputs,      \* Slots -> the value fields of the Input (kind "none": not built)
  outpoints,   \* location -> wire.OutPoint stored there
  descs,       \* location -> SignDescriptor stored there
  made,        \* Slots -> the constructor call that built the Input
  ptrWrite,    \* Slots -> last value written through the OutPoint() pointer
  calls,       \* Threads -> the CraftInputScript call in progress
  nCalls,      \* craft calls started
  last,        \* Slots -> the craft call that returned last
  memo,        \* Slots -> <<txn, txinIdx>> -> what the first such call returned
  lastBound,   \* Slots -> the call that last bound the input index
  txs,         \* TxIds -> contents of the transaction
  timestamp,   \* nodeAnn.Timestamp, a uint32 as <<high 16 bits, low 16 bits>>
  prevStamp,   \* nodeAnn.Timestamp before the last NodeAnnSetTimestamp
  nStamps      \* NodeAnnSetTimestamp calls made

vars == <<inputs, outpoints, descs, made, ptrWrite, calls, nCalls, last, memo,
          lastBound, txs, timestamp, prevStamp, nStamps>>
inputVars == <<inputs, outpoints, descs, made, ptrWrite, calls, nCalls, last, memo,
               lastBound, txs>>
annVars == <<timestamp, prevStamp, nStamps>>

\* ------------------------------------------------------------ constructors
\* A constructor's result: the Input struct as a value.  outpoint and
\* signDescriptor are the values the pointer arguments point to when the
\* constructor runs (*outpoint, *signDescriptor).
NoInput ==
  [kind |-> "none", outpoint |-> 0, witnessType |-> "none", signDesc |-> ZeroDesc,
   heightHint |-> 0, blockToMaturity |-> 0, preimage |-> NoPreimage]

MakeBaseInput(outpoint, witnessType, signDescriptor, heightHint) ==
  [kind |-> "base", outpoint |-> outpoint, witnessType |-> witnessType,
   signDesc |-> signDescriptor, heightHint |-> heightHint,
   blockToMaturity |-> 0, preimage |-> NoPreimage]

NewBaseInput(outpoint, witnessType, signDescriptor, heightHint) ==
  MakeBaseInput(outpoint, witnessType, signDescriptor, heightHint)

NewCsvInput(outpoint, witnessType, signDescriptor, heightHint, blockToMaturity) ==
  [kind |-> "base", outpoint |-> outpoint, witnessType |-> witnessType,
   signDesc |-> signDescriptor, heightHint |-> heightHint,
   blockToMaturity |-> blockToMaturity, preimage |-> NoPreimage]

\* Mutant: the payment hash is stored in place of the preimage.
MakeHtlcSucceedInput_Hashed(outpoint, signDescriptor, preimage, heightHint, blocksToMaturity) ==
  [kind |-> "htlc", outpoint |-> outpoint, witnessType |-> HtlcAcceptedRemoteSuccess,
   signDesc |-> signDescriptor, heightHint |-> heightHint,
   blockToMaturity |-> blocksToMaturity, preimage |-> [bytes |-> Hash(preimage)]]

MakeHtlcSucceedInput(outpoint, signDescriptor, preimage, heightHint, blocksToMaturity) ==
  [kind |-> "htlc", outpoint |-> outpoint, witnessType |-> HtlcAcceptedRemoteSuccess,
   signDesc |-> signDescriptor, heightHint |-> heightHint,
   blockToMaturity |-> blocksToMaturity, preimage |-> [bytes |-> preimage]]

\* A constructor call: which constructor, and its arguments (outpoint and
\* signDesc: the values its pointer arguments point to during the call).
NoArgs ==
  [ctor |-> "none", outpoint |-> 0, witnessType |-> "none", signDesc |-> ZeroDesc,
   preimage |-> 0, heightHint |-> 0, blocksToMaturity |-> 0]
BaseArgs(ctor, outpoint, witnessType, signDesc, heightHint, blocksToMaturity) ==
  [ctor |-> ctor, outpoint |-> outpoint, witnessType |-> witnessType,
   signDesc |-> signDesc, preimage |-> 0, heightHint |-> heightHint,
   blocksToMaturity |-> blocksToMaturity]
HtlcArgs(outpoint, signDesc, preimage, heightHint, blocksToMaturity) ==
  [ctor |-> "MakeHtlcSucceedInput", outpoint |-> outpoint, witnessType |-> "none",
   signDesc |-> signDesc, preimage |-> preimage, heightHint |-> heightHint,
   blocksToMaturity |-> blocksToMaturity]

\* The Input the constructor call a returns.
Construct(a) ==
  CASE a.ctor = "MakeBaseInput" ->
         MakeBaseInput(a.outpoint, a.witnessType, a.signDesc, a.heightHint)
    [] a.ctor = "NewBaseInput" ->
         NewBaseInput(a.outpoint, a.witnessType, a.signDesc, a.heightHint)
    [] a.ctor = "NewCsvInput" ->
         NewCsvInput(a.outpoint, a.witnessType, a.signDesc, a.heightHint,
                     a.blocksToMaturity)
    [] a.ctor = "MakeHtlcSucceedInput" ->
         MakeHtlcSucceedInput(a.outpoint, a.signDesc, a.preimage, a.heightHint,
                              a.blocksToMaturity)
    [] OTHER -> NoInput

\* The fields of inputKit that are neither the outpoint nor the descriptor
\* (those two live in outpoints and descs, at the Input's location).
KitFields(in) ==
  [kind |-> in.kind, witnessType |-> in.witnessType, heightHint |-> in.heightHint,
   blockToMaturity |-> in.blockToMaturity, preimage |-> in.preimage]

\* -------------------------------------------------------------- accessors
\* OutPoint() returns &i.outpoint and SignDesc() returns &i.signDesc:
\* pointers to the Input's own fields.
\* Mutants: the Input keeps the pointer it was constructed with.
OutPoint_Caller(i) == CallerLoc
SignDesc_Caller(i) == CallerLoc

OutPoint(i) == InLoc(i)
SignDesc(i) == InLoc(i)
WitnessType(i) == inputs[i].witnessType
HeightHint(i) == inputs[i].heightHint
BlocksToMaturity(i) == inputs[i].blockToMaturity

\* The Input as a value again: what its accessors report.
Reported(i) ==
  [kind |-> inputs[i].kind, outpoint |-> outpoints[OutPoint(i)],
   witnessType |-> WitnessType(i), signDesc |-> descs[SignDesc(i)],
   heightHint |-> HeightHint(i), blockToMaturity |-> BlocksToMaturity(i),
   preimage |-> inputs[i].preimage]

\* ------------------------------------------------------------ craft calls
\* A transaction and the sighash cache computed from it.
InitTxs == [x \in TxIds |-> [msg |-> 100 + x, sigHashes |-> 200 + x]]
NoTx == [msg |-> 0, sigHashes |-> 0]
NoScript == [Witness |-> <<>>, isNil |-> TRUE]
NoRival == [thread |-> 0, txinIdx |-> 0, hashCache |-> NoCache]
NoOther == [other |-> FALSE, txinIdx |-> 0, hashCache |-> NoCache]
IdleCall ==
  [pc |-> "idle", input |-> 0, txn |-> 0, hashCache |-> NoCache, txinIdx |-> 0,
   descLoc |-> CallerLoc, builder |-> "none", seen |-> ZeroDesc,
   preimage |-> NoPreimage, nSign |-> 0, rival |-> NoOther,
   sres |-> [witness |-> <<>>, err |-> NilErr], txBefore |-> NoTx]

InFlight(t) == calls[t].pc # "idle"
\* No craft call on Input i is running: the caller serializes per Input.
NoCallInFlight(i) == \A u \in Threads : InFlight(u) => calls[u].input # i

NewCall(i, txn, hashCache, txinIdx) ==
  [IdleCall EXCEPT !.input = i, !.txn = txn, !.hashCache = hashCache,
                   !.txinIdx = txinIdx, !.txBefore = txs[txn]]

\* What a finished call leaves behind: its arguments, what its builder and
\* the signer received, what it returned, and the transaction before and
\* after it.
NoResult == [known |-> FALSE, script |-> NoScript, err |-> NilErr]
NoEntry ==
  [returned |-> FALSE, txn |-> 0, hashCache |-> NoCache, txinIdx |-> 0,
   builder |-> "none", seen |-> ZeroDesc, preimage |-> NoPreimage, nSign |-> 0,
   rival |-> NoOther, signerErr |-> NilErr, script |-> NoScript, err |-> NilErr,
   txBefore |-> NoTx, txAfter |-> NoTx, first |-> NoResult, between |-> FALSE]

\* first: what the first call on this Input with these arguments returned,
\* if this is not the first; between: the call that returned just before
\* this one on this Input had another transaction or input index.
Completed(c, r) ==
  [returned |-> TRUE, txn |-> c.txn, hashCache |-> c.hashCache,
   txinIdx |-> c.txinIdx, builder |-> c.builder, seen |-> c.seen,
   preimage |-> c.preimage, nSign |-> c.nSign, rival |-> c.rival,
   signerErr |-> c.sres.err, script |-> r.script, err |-> r.err,
   txBefore |-> c.txBefore, txAfter |-> txs[c.txn],
   first |-> memo[c.input][<<c.txn, c.txinIdx>>],
   between |-> /\ last[c.input].returned
               /\ <<last[c.input].txn, last[c.input].txinIdx>> # <<c.txn, c.txinIdx>>]

\* The caller receives the result r of call c.
Returned(c, r) ==
  /\ last' = [last EXCEPT ![c.input] = Completed(c, r)]
  /\ memo' = [memo EXCEPT ![c.input][<<c.txn, c.txinIdx>>] =
       IF @.known THEN @ ELSE [known |-> TRUE, script |-> r.script, err |-> r.err]]

\* The call that bound its input index last on the Input of call t, when
\* that is another call than t.
Rival(t) ==
  LET b == lastBound[calls[t].input] IN
  [other |-> b.thread # t, txinIdx |-> b.txinIdx, hashCache |-> b.hashCache]

\* -- BaseInput.CraftInputScript
\* witnessFunc := bi.witnessType.WitnessGenerator(signer, bi.SignDesc()):
\* the closure captures the pointer to the Input's own descriptor.
BaseCraftInputScript(t, i, txn, hashCache, txinIdx) ==
  /\ ~InFlight(t)
  /\ nCalls < MaxCalls
  /\ inputs[i].kind = "base"
  /\ calls' = [calls EXCEPT ![t] =
       [NewCall(i, txn, hashCache, txinIdx) EXCEPT
          !.pc = "wg", !.descLoc = SignDesc(i), !.builder = "WitnessGenerator"]]
  /\ nCalls' = nCalls + 1
  /\ UNCHANGED <<inputs, outpoints, descs, made, ptrWrite, last, memo, lastBound, txs>>
  /\ UNCHANGED annVars

\* witnessFunc(txn, hashCache, txinIdx), the generator's closure: it
\* refreshes the descriptor it was given (desc.SigHashes = hc) ...
WG_SetSigHashes(t) ==
  /\ calls[t].pc = "wg"
  /\ descs' = [descs EXCEPT ![calls[t].descLoc].SigHashes = calls[t].hashCache]
  /\ calls' = [calls EXCEPT ![t].pc = "wg_idx"]
  /\ UNCHANGED <<inputs, outpoints, made, ptrWrite, nCalls, last, memo, lastBound, txs>>
  /\ UNCHANGED annVars

\* ... (desc.InputIndex = inputIndex) ...
WG_SetInputIndex(t) ==
  /\ calls[t].pc = "wg_idx"
  /\ descs' = [descs EXCEPT ![calls[t].descLoc].InputIndex = calls[t].txinIdx]
  /\ lastBound' = [lastBound EXCEPT ![calls[t].input] =
       [thread |-> t, txinIdx |-> calls[t].txinIdx, hashCache |-> calls[t].hashCache]]
  /\ calls' = [calls EXCEPT ![t].pc = "sign"]
  /\ UNCHANGED <<inputs, outpoints, made, ptrWrite, nCalls, last, memo, txs>>
  /\ UNCHANGED annVars

\* The witness the strategy of a witness type builds from the signature.
StrategyWitness(wt, sig, desc) ==
  IF wt = CommitmentTimeLock
  THEN <<sig, <<>>, desc.WitnessScript>>
  ELSE <<sig, desc.KeyDesc>>

\* ... and invokes the strategy of the witness type, which has the signer
\* sign with that descriptor; a signer failure is returned as it is.
WitnessGenerator(wt, desc, txn) ==
  LET s == SignOutputRaw(txn, desc) IN
  IF s.err # NilErr
  THEN [witness |-> <<>>, err |-> s.err]
  ELSE [witness |-> StrategyWitness(wt, s.sig, desc), err |-> NilErr]

WG_Sign(t) ==
  /\ calls[t].pc = "sign"
  /\ calls[t].builder = "WitnessGenerator"
  /\ LET desc == descs[calls[t].descLoc] IN
     calls' = [calls EXCEPT
       ![t].pc = "signed",
       ![t].seen = desc,
       ![t].nSign = calls[t].nSign + 1,
       ![t].rival = Rival(t),
       ![t].sres = WitnessGenerator(WitnessType(calls[t].input), desc,
                                    txs[calls[t].txn])]
  /\ UNCHANGED <<inputs, outpoints, descs, made, ptrWrite, nCalls, last, memo, lastBound, txs>>
  /\ UNCHANGED annVars

\* return witnessFunc(txn, hashCache, txinIdx): the closure's result is the
\* call's result.
BaseScript(sres) ==
  IF sres.err # NilErr
  THEN [script |-> NoScript, err |-> sres.err]
  ELSE [script |-> [Witness |-> sres.witness, isNil |-> FALSE], err |-> NilErr]

BaseReturn(t) ==
  /\ calls[t].pc = "signed"
  /\ calls[t].builder = "WitnessGenerator"
  /\ Returned(calls[t], BaseScript(calls[t].sres))
  /\ calls' = [calls EXCEPT ![t] = IdleCall]
  /\ UNCHANGED <<inputs, outpoints, descs, made, ptrWrite, nCalls, lastBound, txs>>
  /\ UNCHANGED annVars

\* -- HtlcSucceedInput.CraftInputScript
\* desc := h.signDesc declares a new local variable: the descriptor the
\* call works on is the call's own.
\* Mutants: desc := &h.signDesc, and one scratch descriptor for all calls.
HtlcDescLoc_Alias(t, i) == InLoc(i)
HtlcDescLoc_Scratch(t, i) == LocalLoc(1)

HtlcDescLoc(t, i) == LocalLoc(t)

\* Mutant: desc.InputIndex = txinIdx is missing.
HtlcBind_NoIndex(held, hashCache, txinIdx) ==
  [held EXCEPT !.SigHashes = hashCache]

\* desc := h.signDesc; desc.SigHashes = hashCache; desc.InputIndex = txinIdx
HtlcBind(held, hashCache, txinIdx) ==
  [held EXCEPT !.SigHashes = hashCache, !.InputIndex = txinIdx]

HtlcCraftInputScript(t, i, txn, hashCache, txinIdx) ==
  /\ ~InFlight(t)
  /\ nCalls < MaxCalls
  /\ inputs[i].kind = "htlc"
  /\ LET loc == HtlcDescLoc(t, i) IN
     /\ descs' = [descs EXCEPT ![loc] = HtlcBind(descs[InLoc(i)], hashCache, txinIdx)]
     /\ calls' = [calls EXCEPT ![t] =
          [NewCall(i, txn, hashCache, txinIdx) EXCEPT
             !.pc = "sign", !.descLoc = loc, !.builder = "SenderHtlcSpendRedeem"]]
  /\ lastBound' = [lastBound EXCEPT ![i] =
       [thread |-> t, txinIdx |-> txinIdx, hashCache |-> hashCache]]
  /\ nCalls' = nCalls + 1
  /\ UNCHANGED <<inputs, outpoints, made, ptrWrite, last, memo, txs>>
  /\ UNCHANGED annVars

\* SenderHtlcSpendRedeem(signer, signDesc, sweepTx, paymentPreimage): one
\* signature over the sweep transaction, then the witness stack
\* <<signature, preimage, witness script>>; the preimage is not checked
\* against the script's payment hash.
SenderHtlcSpendRedeem(signDesc, sweepTx, paymentPreimage) ==
  LET s == SignOutputRaw(sweepTx, signDesc) IN
  IF s.err # NilErr
  THEN [witness |-> <<>>, err |-> s.err]
  ELSE [witness |-> <<s.sig, paymentPreimage.bytes, signDesc.WitnessScript>>,
        err |-> NilErr]

\* witness, err := SenderHtlcSpendRedeem(signer, &desc, txn, h.preimage)
HtlcSign(t) ==
  /\ calls[t].pc = "sign"
  /\ calls[t].builder = "SenderHtlcSpendRedeem"
  /\ LET desc == descs[calls[t].descLoc]
         pre == inputs[calls[t].input].preimage
     IN calls' = [calls EXCEPT
          ![t].pc = "signed",
          ![t].seen = desc,
          ![t].preimage = pre,
          ![t].nSign = calls[t].nSign + 1,
          ![t].rival = Rival(t),
          ![t].sres = SenderHtlcSpendRedeem(desc, txs[calls[t].txn], pre)]
  /\ UNCHANGED <<inputs, outpoints, descs, made, ptrWrite, nCalls, last, memo, lastBound, txs>>
  /\ UNCHANGED annVars

\* Mutant: the Script is built before the error is looked at.
HtlcScript_Partial(sres) ==
  [script |-> [Witness |-> sres.witness, isNil |-> FALSE], err |-> sres.err]

\* if err != nil { return nil, err }; return &Script{Witness: witness}, nil
HtlcScript(sres) ==
  IF sres.err # NilErr
  THEN [script |-> NoScript, err |-> sres.err]
  ELSE [script |-> [Witness |-> sres.witness, isNil |-> FALSE], err |-> NilErr]

\* The call returns and its local variable desc dies.
HtlcReturn(t) ==
  /\ calls[t].pc = "signed"
  /\ calls[t].builder = "SenderHtlcSpendRedeem"
  /\ Returned(calls[t], HtlcScript(calls[t].sres))
  /\ calls' = [calls EXCEPT ![t] = IdleCall]
  /\ descs' = [descs EXCEPT ![LocalLoc(t)] = ZeroDesc]
  /\ UNCHANGED <<inputs, outpoints, made, ptrWrite, nCalls, lastBound, txs>>
  /\ UNCHANGED annVars

\* --------------------------------------------------------- initial states
NoPtrWrite == [written |-> FALSE, value |-> 0]
InitAnnIdle ==
  /\ timestamp = <<0, 0>>
  /\ prevStamp = <<0, 0>>
  /\ nStamps = 0

\* The memory after the constructor calls as (Slots -> call) were made.
Built(as, callerOutpoint, callerDesc) ==
  /\ inputs = [i \in Slots |-> KitFields(Construct(as[i]))]
  /\ made = as
  /\ outpoints = [l \in Locs |->
       IF l = CallerLoc THEN callerOutpoint
       ELSE IF l[1] = "input" THEN Construct(as[l[2]]).outpoint ELSE 0]
  /\ descs = [l \in Locs |->
       IF l = CallerLoc THEN callerDesc
       ELSE IF l[1] = "input" THEN Construct(as[l[2]]).signDesc ELSE ZeroDesc]
  /\ ptrWrite = [i \in Slots |-> NoPtrWrite]
  /\ calls = [t \in Threads |-> IdleCall]
  /\ nCalls = 0
  /\ last = [i \in Slots |-> NoEntry]
  /\ memo = [i \in Slots |-> [a \in TxIds \X TxinIdxs |-> NoResult]]
  /\ lastBound = [i \in Slots |-> NoRival]
  /\ txs = InitTxs

\* One Input a caller can build for slot i: a BaseInput or an
\* HtlcSucceedInput, from the caller's descriptor for key k.
BuiltInputs(i) ==
  {BaseArgs("MakeBaseInput", i, CommitmentNoDelay, CallerDesc(k), 100, 0) :
     k \in KeyIds}
  \cup {HtlcArgs(i, CallerDesc(k), p, 100, 0) : k \in KeyIds, p \in Preimages}

\* Two Inputs have been constructed; no craft call has been made.
Init ==
  /\ \E a \in BuiltInputs(1), b \in BuiltInputs(2) :
       Built([i \in Slots |-> IF i = 1 THEN a ELSE b], 2, b.signDesc)
  /\ InitAnnIdle

\* Goroutines have no identity: a call runs on the first free one.
FreeThread(t) == \A u \in Threads : u < t => InFlight(u)

\* The steps of the craft calls in progress.
CraftStep(t) ==
  \/ WG_SetSigHashes(t)
  \/ WG_SetInputIndex(t)
  \/ WG_Sign(t)
  \/ BaseReturn(t)
  \/ HtlcSign(t)
  \/ HtlcReturn(t)

\* The caller serializes the craft calls on one Input; calls on different
\* Inputs run concurrently.  hashCache is the cache of txn.
Next ==
  \E t \in Threads :
    \/ \E i \in Slots, txn \in TxIds, idx \in TxinIdxs :
         /\ FreeThread(t)
         /\ NoCallInFlight(i)
         /\ \/ BaseCraftInputScript(t, i, txn, SigHashesOf(txn), idx)
            \/ HtlcCraftInputScript(t, i, txn, SigHashesOf(txn), idx)
    \/ CraftStep(t)

Spec == Init /\ [][Next]_vars

\* No serialization: the craft calls on Input 1 may overlap.
RaceSlots == {1}

NextRace ==
  \E t \in Threads :
    \/ \E i \in RaceSlots, txn \in TxIds, idx \in TxinIdxs :
         /\ FreeThread(t)
         /\ \/ BaseCraftInputScript(t, i, txn, SigHashesOf(txn), idx)
            \/ HtlcCraftInputScript(t, i, txn, SigHashesOf(txn), idx)
    \/ CraftStep(t)

\* One Input of either kind, and a BaseInput built from the same descriptor.
InitRace ==
  /\ \E a \in BuiltInputs(1) :
       Built([i \in Slots |->
                IF i = 1 THEN a
                ELSE BaseArgs("MakeBaseInput", 2, CommitmentNoDelay, a.signDesc,
                              100, 0)],
             2, a.signDesc)
  /\ InitAnnIdle

SpecRace == InitRace /\ [][NextRace]_vars

\* ------------------------------------------------------------- lifecycle
BaseWitnessTypes == {CommitmentTimeLock, CommitmentNoDelay}
LifeSlots == {1}
LifeThreads == {1}

\* The Input that constructor call a returns becomes Input i: its outpoint
\* and its descriptor are copies, held at the Input's own location.
Store(i, a) ==
  /\ inputs[i].kind = "none"
  /\ inputs' = [inputs EXCEPT ![i] = KitFields(Construct(a))]
  /\ outpoints' = [outpoints EXCEPT ![InLoc(i)] = Construct(a).outpoint]
  /\ descs' = [descs EXCEPT ![InLoc(i)] = Construct(a).signDesc]
  /\ made' = [made EXCEPT ![i] = a]
  /\ UNCHANGED <<ptrWrite, calls, nCalls, last, memo, lastBound, txs>>
  /\ UNCHANGED annVars

\* The constructors, called with the addresses of the caller's outpoint
\* and descriptor.
DoMakeBaseInput(i, wt, hh) ==
  Store(i, BaseArgs("MakeBaseInput", outpoints[CallerLoc], wt, descs[CallerLoc], hh, 0))

DoNewBaseInput(i, wt, hh) ==
  Store(i, BaseArgs("NewBaseInput", outpoints[CallerLoc], wt, descs[CallerLoc], hh, 0))

DoNewCsvInput(i, wt, hh, btm) ==
  Store(i, BaseArgs("NewCsvInput", outpoints[CallerLoc], wt, descs[CallerLoc], hh, btm))

DoMakeHtlcSucceedInput(i, p, hh, btm) ==
  Store(i, HtlcArgs(outpoints[CallerLoc], descs[CallerLoc], p, hh, btm))

\* Outside code writes the outpoint it passed to a constructor.
CallerWriteOutpoint(v) ==
  /\ outpoints[CallerLoc] # v
  /\ outpoints' = [outpoints EXCEPT ![CallerLoc] = v]
  /\ UNCHANGED <<inputs, descs, made, ptrWrite, calls, nCalls, last, memo, lastBound, txs>>
  /\ UNCHANGED annVars

\* Outside code writes through the pointer OutPoint() returned:
\* *in.OutPoint() = v.
WriteThroughOutPoint(i, v) ==
  /\ inputs[i].kind # "none"
  /\ outpoints' = [outpoints EXCEPT ![OutPoint(i)] = v]
  /\ ptrWrite' = [ptrWrite EXCEPT ![i] = [written |-> TRUE, value |-> v]]
  /\ UNCHANGED <<inputs, descs, made, calls, nCalls, last, memo, lastBound, txs>>
  /\ UNCHANGED annVars

\* Nothing is constructed yet.
InitLife ==
  /\ \E op \in OutPointVals, k \in KeyIds :
       Built([i \in Slots |-> NoArgs], op, CallerDesc(k))
  /\ InitAnnIdle

NextLife ==
  \/ \E i \in LifeSlots, wt \in BaseWitnessTypes, hh \in HeightHints :
       \/ DoMakeBaseInput(i, wt, hh)
       \/ DoNewBaseInput(i, wt, hh)
       \/ \E btm \in Maturities : DoNewCsvInput(i, wt, hh, btm)
  \/ \E i \in LifeSlots, p \in Preimages, hh \in HeightHints, btm \in Maturities :
       DoMakeHtlcSucceedInput(i, p, hh, btm)
  \/ \E v \in OutPointVals : CallerWriteOutpoint(v)
  \/ \E i \in LifeSlots, v \in OutPointVals : WriteThroughOutPoint(i, v)
  \/ \E t \in LifeThreads :
       \/ \E i \in LifeSlots, txn \in TxIds, idx \in TxinIdxs :
            /\ NoCallInFlight(i)
            /\ \/ BaseCraftInputScript(t, i, txn, SigHashesOf(txn), idx)
               \/ HtlcCraftInputScript(t, i, txn, SigHashesOf(txn), idx)
       \/ CraftStep(t)

SpecLife == InitLife /\ [][NextLife]_vars

\* ---------------------------------------------------- node announcements
\* A uint32 is the pair <<high half, low half>> of its 16-bit halves, so
\* that 32-bit arithmetic stays within the checker's integers.
Half == 65536
MaxHalf == Half - 1

Less32(a, b) == a[1] < b[1] \/ (a[1] = b[1] /\ a[2] < b[2])
Leq32(a, b) == a = b \/ Less32(a, b)
\* a + 1 on uint32: wraps to 0 after 4294967295.
Inc32(a) ==
  IF a[2] + 1 < Half THEN <<a[1], a[2] + 1>> ELSE <<(a[1] + 1) % Half, 0>>

\* time.Now().Unix() is an int64, epoch * 2^32 + hi * 2^16 + lo; uint32()
\* keeps its low 32 bits.
Uint32(now) == <<now.hi, now.lo>>

ClockReadings ==
  {[epoch |-> 0, hi |-> 0, lo |-> 5],
   [epoch |-> 0, hi |-> 0, lo |-> MaxHalf],
   [epoch |-> 0, hi |-> 26000, lo |-> 100],
   [epoch |-> 0, hi |-> MaxHalf, lo |-> MaxHalf],
   [epoch |-> 1, hi |-> 0, lo |-> 7]}

InitStamps ==
  {<<0, 0>>, <<0, 4>>, <<0, MaxHalf>>, <<1, 0>>, <<26000, 50>>, <<26000, 100>>,
   <<26000, MaxHalf>>, <<MaxHalf, 0>>,
   <<MaxHalf, MaxHalf - 1>>, <<MaxHalf, MaxHalf>>}

\* The timestamp NodeAnnSetTimestamp leaves in the announcement.
NodeAnnSetTimestamp(ts, now) ==
  LET newTimestamp == Uint32(now) IN
  IF Leq32(newTimestamp, ts) THEN Inc32(ts) ELSE newTimestamp

SetTimestamp(now) ==
  /\ nStamps < MaxStamps
  /\ prevStamp' = timestamp
  /\ timestamp' = NodeAnnSetTimestamp(timestamp, now)
  /\ nStamps' = nStamps + 1
  /\ UNCHANGED inputVars

InitAnn ==
  /\ Built([i \in Slots |-> NoArgs], 1, CallerDesc(1))
  /\ timestamp \in InitStamps
  /\ prevStamp = timestamp
  /\ nStamps = 0

NextAnn == \E now \in ClockReadings : SetTimestamp(now)

SpecAnn == InitAnn /\ [][NextAnn]_vars

\* ------------------------------------------------------------ properties
IsBuilt(i) == inputs[i].kind # "none"
\* The signer has been invoked for call t, which has not returned yet.
Signed(t) == calls[t].pc = "signed"

\* The descriptor Input i holds when no call on it is running: a BaseInput
\* holds the late-bound fields of the call that returned last, an
\* HtlcSucceedInput the descriptor it was constructed with.
HeldAfter(i) ==
  IF inputs[i].kind = "base" /\ last[i].returned
  THEN [made[i].signDesc EXCEPT !.SigHashes = last[i].hashCache,
                                !.InputIndex = last[i].txinIdx]
  ELSE made[i].signDesc

\* C1: with the calls on one Input serialized, every signer invocation of a
\* craft call, on either kind of Input, receives a descriptor whose
\* InputIndex and SigHashes are that call's txinIdx and hashCache.
C1_SignerGetsCallContext ==
  /\ \A t \in Threads : Signed(t) =>
       /\ calls[t].seen.InputIndex = calls[t].txinIdx
       /\ calls[t].seen.SigHashes = calls[t].hashCache
  /\ \A i \in Slots : last[i].returned =>
       /\ last[i].seen.InputIndex = last[i].txinIdx
       /\ last[i].seen.SigHashes = last[i].hashCache

\* An HtlcSucceedInput's signer was invoked after an earlier call on it
\* with another index and cache, and a BaseInput's signer was invoked with
\* an index other than the one it was constructed with.
C1_Witness ==
  /\ \E t \in Threads :
       LET i == calls[t].input IN
       /\ Signed(t)
       /\ inputs[i].kind = "htlc"
       /\ last[i].returned
       /\ last[i].txinIdx # calls[t].txinIdx
       /\ last[i].hashCache # calls[t].hashCache
  /\ \E j \in Slots :
       /\ inputs[j].kind = "base"
       /\ last[j].returned
       /\ last[j].seen.InputIndex # made[j].signDesc.InputIndex

\* C2: the signer invocation of a call on Input A receives A's descriptor
\* contents with that call's index and cache, also while a call on another
\* Input B runs, and a call on B leaves the descriptor A holds as A's own
\* calls left it.
C2_NoCrossTalk ==
  /\ \A t \in Threads : Signed(t) =>
       calls[t].seen =
         [made[calls[t].input].signDesc EXCEPT !.SigHashes = calls[t].hashCache,
                                               !.InputIndex = calls[t].txinIdx]
  /\ \A i \in Slots : IsBuilt(i) /\ NoCallInFlight(i) =>
       descs[SignDesc(i)] = HeldAfter(i)

\* Calls on two Inputs built from the same descriptor overlap, with
\* different indices and caches, and both signers have been invoked.
C2_Witness ==
  \E t, u \in Threads :
    /\ Signed(t) /\ Signed(u)
    /\ calls[t].input # calls[u].input
    /\ made[calls[t].input].signDesc = made[calls[u].input].signDesc
    /\ calls[t].txinIdx # calls[u].txinIdx
    /\ calls[t].hashCache # calls[u].hashCache

\* C3 as claimed, for either kind of Input: when another call on the same
\* Input bound a different input index after this call bound its own and
\* before this call's signer is invoked (calls that are not serialized),
\* the signer receives the other call's input index.
C3_Original ==
  \A t \in Threads :
    (Signed(t) /\ calls[t].rival.other /\ calls[t].rival.txinIdx # calls[t].txinIdx)
      => calls[t].seen.InputIndex = calls[t].rival.txinIdx

\* C3 amended: that interleaving hands the signer the other call's index
\* on a BaseInput only; on an HtlcSucceedInput every signer invocation
\* receives its own call's index and cache, serialized or not.
C3_Amended ==
  \A t \in Threads : Signed(t) =>
    IF inputs[calls[t].input].kind = "base"
    THEN (calls[t].rival.other /\ calls[t].rival.txinIdx # calls[t].txinIdx)
           => calls[t].seen.InputIndex = calls[t].rival.txinIdx
    ELSE /\ calls[t].seen.InputIndex = calls[t].txinIdx
         /\ calls[t].seen.SigHashes = calls[t].hashCache

\* Two calls on one BaseInput overlapped and the signer of one received
\* the other's input index.
C3_Witness ==
  \E t \in Threads :
    /\ Signed(t)
    /\ inputs[calls[t].input].kind = "base"
    /\ calls[t].rival.other
    /\ calls[t].seen.InputIndex # calls[t].txinIdx

\* C4 as claimed: after a craft call on an Input of either kind the
\* descriptor the Input holds has that call's InputIndex and SigHashes.
C4_Original ==
  \A i \in Slots : (IsBuilt(i) /\ last[i].returned /\ NoCallInFlight(i)) =>
    /\ descs[SignDesc(i)].InputIndex = last[i].txinIdx
    /\ descs[SignDesc(i)].SigHashes = last[i].hashCache

\* C4 amended: after a craft call a BaseInput holds that call's InputIndex
\* and SigHashes; an HtlcSucceedInput holds the descriptor it was
\* constructed with (its call binds a local copy); no other field of
\* either changes.
C4_Amended ==
  \A i \in Slots : IsBuilt(i) =>
    /\ KitFields(Reported(i)) = KitFields(Construct(made[i]))
    /\ outpoints[OutPoint(i)] = made[i].outpoint
    /\ descs[SignDesc(i)].KeyDesc = made[i].signDesc.KeyDesc
    /\ descs[SignDesc(i)].WitnessScript = made[i].signDesc.WitnessScript
    /\ NoCallInFlight(i) => descs[SignDesc(i)] = HeldAfter(i)

\* A call with input index 1 returned on an HtlcSucceedInput, which still
\* holds index 0, and one returned on a BaseInput, which holds index 1.
C4_Witness ==
  \E i, j \in Slots :
    /\ inputs[i].kind = "htlc" /\ inputs[j].kind = "base"
    /\ NoCallInFlight(i) /\ NoCallInFlight(j)
    /\ last[i].returned /\ last[i].txinIdx = 1
    /\ descs[SignDesc(i)].InputIndex = 0
    /\ last[j].returned /\ last[j].txinIdx = 1
    /\ descs[SignDesc(j)].InputIndex = 1

\* C5: a craft call invokes the signer once; when the signer fails the call
\* returns the signer's error and no Script; the transaction and its
\* sighash cache are what they were before the call.
C5_SignerFailure ==
  /\ \A i \in Slots : last[i].returned =>
       /\ last[i].nSign = 1
       /\ last[i].txAfter = last[i].txBefore
       /\ last[i].signerErr # NilErr =>
            (last[i].err = last[i].signerErr /\ last[i].script = NoScript)
  /\ \A t \in Threads : InFlight(t) =>
       /\ calls[t].nSign <= 1
       /\ txs[calls[t].txn] = calls[t].txBefore

\* A craft call on an HtlcSucceedInput returned after its signer failed.
C5_Witness ==
  \E i \in Slots :
    /\ inputs[i].kind = "htlc"
    /\ last[i].returned
    /\ last[i].signerErr = ErrKeyUnavailable

\* C8: an HtlcSucceedInput has witness type HtlcAcceptedRemoteSuccess; its
\* craft call goes to the HTLC-success builder, not to the generic
\* dispatch, with the preimage given to the constructor; it fails exactly
\* when the signer fails, whether or not the preimage matches the script,
\* and the witness carries the preimage.
C8_HtlcPreimage ==
  \A i \in Slots : inputs[i].kind = "htlc" =>
    /\ WitnessType(i) = HtlcAcceptedRemoteSuccess
    /\ \A t \in Threads : (Signed(t) /\ calls[t].input = i) =>
         /\ calls[t].builder = "SenderHtlcSpendRedeem"
         /\ calls[t].preimage.bytes = made[i].preimage
    /\ last[i].returned =>
         /\ last[i].builder = "SenderHtlcSpendRedeem"
         /\ last[i].preimage.bytes = made[i].preimage
         /\ (last[i].err # NilErr) <=> (last[i].signerErr # NilErr)
         /\ last[i].err = NilErr =>
              (~last[i].script.isNil /\ last[i].script.Witness[2] = made[i].preimage)

\* A craft call succeeded on an HtlcSucceedInput whose preimage does not
\* hash to the payment hash of its script.
C8_Witness ==
  \E i \in Slots :
    /\ inputs[i].kind = "htlc"
    /\ last[i].returned
    /\ last[i].err = NilErr
    /\ Hash(made[i].preimage) # last[i].seen.WitnessScript

\* C9: a craft call returns what the first call on the same Input with the
\* same transaction and input index returned (the signer is deterministic).
C9_Idempotent ==
  \A i \in Slots : (last[i].returned /\ last[i].first.known) =>
    /\ last[i].script = last[i].first.script
    /\ last[i].err = last[i].first.err

\* A craft call was repeated with success after a call with another
\* transaction or index on the same Input, on either kind of Input.
C9_Witness ==
  \E i \in Slots :
    /\ last[i].returned
    /\ last[i].first.known
    /\ last[i].between
    /\ last[i].err = NilErr

\* C6 as claimed: nothing outside code does, no write to the original
\* outpoint and no write through the pointer OutPoint() returns, changes
\* the outpoint an Input reports.
C6_Original ==
  \A i \in Slots : IsBuilt(i) => outpoints[OutPoint(i)] = made[i].outpoint

\* C6 amended: the Input reports the outpoint it was constructed with,
\* whatever is written to the original and whatever craft calls are made,
\* until outside code writes through the pointer OutPoint() returns; from
\* then on it reports the value written last.
C6_Amended ==
  \A i \in Slots : IsBuilt(i) =>
    outpoints[OutPoint(i)] =
      IF ptrWrite[i].written THEN ptrWrite[i].value ELSE made[i].outpoint

\* The caller overwrote the outpoint it constructed the Input from and a
\* craft call returned; the Input reports the outpoint of its construction.
C6_Witness ==
  \E i \in Slots :
    /\ IsBuilt(i)
    /\ ~ptrWrite[i].written
    /\ outpoints[CallerLoc] # made[i].outpoint
    /\ last[i].returned
    /\ outpoints[OutPoint(i)] = made[i].outpoint

\* C7: an Input whose witness type is not CSV/CLTV gated has
\* BlocksToMaturity() = 0.
C7_Claim ==
  \A i \in Slots :
    (IsBuilt(i) /\ ~IsTimeLocked(WitnessType(i))) => BlocksToMaturity(i) = 0

\* C10: after NodeAnnSetTimestamp the timestamp is strictly greater than
\* it was before the call.
C10_Claim == nStamps > 0 => Less32(prevStamp, timestamp)

====
